---- MODULE Spec2Model ----
(***************************************************************************)
(* Onboarding-checklist backend: the Postgres-backed server               *)
(* (src/server.js), the in-memory server (src/unnamed/part_000, lines     *)
(* 199-278) and the identifier derivation both of them share.             *)
(*                                                                         *)
(* Strings are sequences of characters; a character is a one-element TLA+  *)
(* string, or a name ("KELVIN", "NBSP", ...) for a non-ASCII code point.   *)
(***************************************************************************)
EXTENDS Naturals, Sequences, FiniteSets, Bags

VARIABLES
  arg, ret, called,        \* makeClientId on its own: argument, result, done
  phase,                   \* start(): "initDb1", "initDb2", "listen", "listening", "exited"
  tables,                  \* the tables that exist in the database
  clients,                 \* table clients: id -> name, one entry per row
  client_states,           \* table client_states: client_id -> state
  pending,                 \* bag of handlers waiting to run their second statement
  res,                     \* the response written last
  CLIENTS,                 \* in-memory server: the own entries of CLIENTS, oldest first
  protoState,              \* in-memory server: Object.prototype.state
  ctorState,               \* in-memory server: the own property Object.state
  resMem,                  \* in-memory server: the response written last
  lastReq                  \* the request sent last to both servers

vars ==
  <<arg, ret, called, phase, tables, clients, client_states, pending, res,
    CLIENTS, protoState, ctorState, resMem, lastReq>>

memVars == <<CLIENTS, protoState, ctorState, resMem>>

idVars == <<arg, ret, called>>
dbVars == <<clients, client_states>>
bootVars == <<phase, tables>>

(***************************************************************************)
(* Characters                                                              *)
(***************************************************************************)
UpperSeq ==
  <<"A","B","C","D","E","F","G","H","I","J","K","L","M",
    "N","O","P","Q","R","S","T","U","V","W","X","Y","Z">>

LowerSeq ==
  <<"a","b","c","d","e","f","g","h","i","j","k","l","m",
    "n","o","p","q","r","s","t","u","v","w","x","y","z">>

DigitSeq == <<"0","1","2","3","4","5","6","7","8","9">>

Range(s) == { s[i] : i \in DOMAIN s }

\* ASCII letters and digits, before any case conversion.
AsciiAlnum == Range(UpperSeq) \cup Range(LowerSeq) \cup Range(DigitSeq)

\* The characters the regular expression class [a-z0-9] matches.
SlugAlnum == Range(LowerSeq) \cup Range(DigitSeq)

\* What String.prototype.trim removes (WhiteSpace and LineTerminator).
WhiteSpace == {" ", "TAB", "LF", "CR", "NBSP"}

\* String.prototype.toLowerCase on one character.  The result is a string:
\* U+0130 (LATIN CAPITAL LETTER I WITH DOT ABOVE) lowercases to "i" followed
\* by U+0307, and U+212A (KELVIN SIGN) lowercases to the ASCII letter "k".
ToLowerChar(c) ==
  IF \E i \in DOMAIN UpperSeq : UpperSeq[i] = c
    THEN <<LowerSeq[CHOOSE i \in DOMAIN UpperSeq : UpperSeq[i] = c]>>
  ELSE IF c = "KELVIN" THEN <<"k">>
  ELSE IF c = "IDOT" THEN <<"i", "COMBINING_DOT">>
  ELSE IF c = "E_ACUTE_UPPER" THEN <<"e_acute">>
  ELSE <<c>>

RECURSIVE toLowerCase(_)
toLowerCase(s) ==
  IF s = <<>> THEN <<>> ELSE ToLowerChar(Head(s)) \o toLowerCase(Tail(s))

RECURSIVE TrimStart(_)
TrimStart(s) ==
  IF s # <<>> /\ Head(s) \in WhiteSpace THEN TrimStart(Tail(s)) ELSE s

RECURSIVE TrimEnd(_)
TrimEnd(s) ==
  IF s # <<>> /\ s[Len(s)] \in WhiteSpace
    THEN TrimEnd(SubSeq(s, 1, Len(s) - 1))
    ELSE s

trim(s) == TrimEnd(TrimStart(s))

\* The longest prefix of s outside [a-z0-9] is dropped.
RECURSIVE SkipNonAlnum(_)
SkipNonAlnum(s) ==
  IF s # <<>> /\ Head(s) \notin SlugAlnum THEN SkipNonAlnum(Tail(s)) ELSE s

\* s.replace(/[^a-z0-9]+/g, "-"): every maximal run becomes one hyphen.
RECURSIVE ReplaceRuns(_)
ReplaceRuns(s) ==
  IF s = <<>> THEN <<>>
  ELSE IF Head(s) \in SlugAlnum THEN <<Head(s)>> \o ReplaceRuns(Tail(s))
  ELSE <<"-">> \o ReplaceRuns(SkipNonAlnum(Tail(s)))

RECURSIVE StripLeadingHyphens(_)
StripLeadingHyphens(s) ==
  IF s # <<>> /\ Head(s) = "-" THEN StripLeadingHyphens(Tail(s)) ELSE s

RECURSIVE StripTrailingHyphens(_)
StripTrailingHyphens(s) ==
  IF s # <<>> /\ s[Len(s)] = "-"
    THEN StripTrailingHyphens(SubSeq(s, 1, Len(s) - 1))
    ELSE s

\* s.replace(/^-+|-+$/g, "")
StripHyphens(s) == StripTrailingHyphens(StripLeadingHyphens(s))

ClientFallback == <<"c","l","i","e","n","t">>

\* A derivation that does not strip trailing hyphens.
makeClientIdNoTrailingStrip(name) ==
  LET slug == StripLeadingHyphens(ReplaceRuns(toLowerCase(trim(name))))
  IN  IF slug = <<>> THEN ClientFallback ELSE slug

makeClientId(name) ==
  LET slug == StripHyphens(ReplaceRuns(toLowerCase(trim(name))))
  IN  IF slug = <<>> THEN ClientFallback ELSE slug

(***************************************************************************)
(* Values on the wire and in the tables                                    *)
(***************************************************************************)
\* The value of `name` when the request body has no such field.
Undefined == <<"undefined">>

NameInputs == {Undefined, <<>>, <<" ">>, <<"A">>, <<" ", "a">>}

\* The :id route parameter is any string, slug or not.
RouteIds == {<<"a">>, <<"A">>}

\* A JSON value: an object is known by its keys (every value is true).
Obj(keys) == [type |-> "object", keys |-> keys]
EmptyObject == Obj({})
JsonArray == [type |-> "array", keys |-> {}]
JsonScalar == [type |-> "scalar", keys |-> {}]
JsonNull == [type |-> "null", keys |-> {}]

\* The JavaScript value undefined, where a state is expected.
JsUndefined == [type |-> "undefined", keys |-> {}]

ObjectBodies == {EmptyObject, Obj({"task1"})}
Bodies == ObjectBodies \cup {JsonArray, JsonScalar, JsonNull}

\* How many handlers may be between their two statements at once.
MaxInFlight == 2

NoRes ==
  [op |-> "none", status |-> 0, cause |-> "none", id |-> <<>>, name |-> <<>>,
   state |-> EmptyObject, list |-> <<>>]

Request(op, id, name, body) ==
  [op |-> op, id |-> id, name |-> name, body |-> body]

NoRequest == Request("none", <<>>, <<>>, EmptyObject)

Res(op, status, cause) ==
  [NoRes EXCEPT !.op = op, !.status = status, !.cause = cause]

\* The catch block of a handler: any failed statement is answered 500.
BackendError(op) == Res(op, 500, "backend")

(***************************************************************************)
(* Request validation                                                      *)
(***************************************************************************)
\* express.json() in its default strict mode parses only a body whose top
\* level is an object or an array; anything else is answered 400 before the
\* route handler runs.
JsonParsed(body) == body.type \in {"object", "array"}

\* A validation that refuses a missing or empty name without trimming it.
NameRejectedNoTrim(name) == name = Undefined \/ name = <<>>

\* !name || !name.trim()
NameRejected(name) == name = Undefined \/ name = <<>> \/ trim(name) = <<>>

\* A validation that accepts arrays as states.
StateRejectedTypeofOnly(state) == state.type \notin {"object", "array", "null"}

\* typeof state !== "object" || Array.isArray(state); typeof null is "object".
StateRejected(state) ==
  state.type \notin {"object", "array", "null"} \/ state.type = "array"

(***************************************************************************)
(* SQL statements, as functions of the tables                              *)
(***************************************************************************)
Put(f, k, v) == [x \in DOMAIN f \cup {k} |-> IF x = k THEN v ELSE f[x]]
Remove(f, k) == [x \in DOMAIN f \ {k} |-> f[x]]
Empty == [x \in {} |-> x]

\* INSERT INTO clients (id, name) VALUES ($1, $2)
\*   ON CONFLICT (id) DO UPDATE SET name = EXCLUDED.name
UpsertClient(c, id, name) == Put(c, id, name)

\* An insert of (id, id) that replaces the row it conflicts with.
InsertClientOverwriting(c, id) == Put(c, id, id)

\* INSERT INTO clients (id, name) VALUES ($1, $1) ON CONFLICT (id) DO NOTHING
InsertClientIfAbsent(c, id) == IF id \in DOMAIN c THEN c ELSE Put(c, id, id)

\* An insert of the empty state that replaces the row it conflicts with.
InsertEmptyStateOverwriting(s, id) == Put(s, id, EmptyObject)

\* INSERT INTO client_states (client_id, state) VALUES ($1, '{}'::jsonb)
\*   ON CONFLICT (client_id) DO NOTHING
InsertEmptyStateIfAbsent(s, id) ==
  IF id \in DOMAIN s THEN s ELSE Put(s, id, EmptyObject)

\* An upsert that merges the keys of the new state into the stored one.
MergeState(s, id, state) ==
  IF id \in DOMAIN s /\ s[id].type = "object" /\ state.type = "object"
    THEN Put(s, id, Obj(s[id].keys \cup state.keys))
    ELSE Put(s, id, state)

\* An insert of the state that keeps the row it conflicts with.
InsertStateIfAbsent(s, id, state) ==
  IF id \in DOMAIN s THEN s ELSE Put(s, id, state)

\* INSERT INTO client_states (client_id, state) VALUES ($1, $2::jsonb)
\*   ON CONFLICT (client_id) DO UPDATE SET state = EXCLUDED.state
UpsertState(s, id, state) == Put(s, id, state)

\* A state table with no reference to clients: any insert goes through.
ForeignKeyUnchecked(c, id) == TRUE

\* client_states.client_id REFERENCES clients(id): an insert of a state row
\* for an id with no client row violates the constraint.
ForeignKeyHolds(c, id) == id \in DOMAIN c

\* An update that inserts the row it does not find.
UpdateNameOrInsert(c, id, name) == Put(c, id, name)

\* An update with no WHERE clause.
UpdateNameEveryRow(c, id, name) == [x \in DOMAIN c |-> name]

\* UPDATE clients SET name = $2 WHERE id = $1
UpdateName(c, id, name) == IF id \in DOMAIN c THEN Put(c, id, name) ELSE c

\* DELETE FROM clients WHERE id = $1
DeleteClient(c, id) == Remove(c, id)

\* A delete that leaves the state row of the deleted client in place.
NoCascade(s, id) == s

\* ... REFERENCES clients(id) ON DELETE CASCADE
Cascade(s, id) == Remove(s, id)

\* Lexicographic comparison of two names by code point.
CodePoint(c) ==
  IF c = " " THEN 32
  ELSE IF c = "!" THEN 33
  ELSE IF c = "-" THEN 45
  ELSE IF \E i \in DOMAIN DigitSeq : DigitSeq[i] = c
    THEN 47 + (CHOOSE i \in DOMAIN DigitSeq : DigitSeq[i] = c)
  ELSE IF \E i \in DOMAIN UpperSeq : UpperSeq[i] = c
    THEN 64 + (CHOOSE i \in DOMAIN UpperSeq : UpperSeq[i] = c)
  ELSE IF \E i \in DOMAIN LowerSeq : LowerSeq[i] = c
    THEN 96 + (CHOOSE i \in DOMAIN LowerSeq : LowerSeq[i] = c)
  ELSE 128

RECURSIVE NameLessEq(_, _)
NameLessEq(a, b) ==
  IF a = <<>> THEN TRUE
  ELSE IF b = <<>> THEN FALSE
  ELSE IF CodePoint(Head(a)) # CodePoint(Head(b))
    THEN CodePoint(Head(a)) < CodePoint(Head(b))
  ELSE NameLessEq(Tail(a), Tail(b))

\* The rows of c in the orders ORDER BY name ASC allows: every row once, by
\* name; rows of equal name come in either order.
RECURSIVE OrderByName(_, _)
OrderByName(c, ids) ==
  IF ids = {} THEN {<<>>}
  ELSE UNION { { <<[id |-> first, name |-> c[first]]>> \o rest :
                   rest \in OrderByName(c, ids \ {first}) } :
               first \in { x \in ids : \A y \in ids : NameLessEq(c[x], c[y]) } }

\* SELECT id, name FROM clients ORDER BY name ASC
SelectClientsOrderByName(c) == OrderByName(c, DOMAIN c)

\* result.rows.length === 0 ? {} : (result.rows[0].state || {})
SelectState(s, id) ==
  IF id \notin DOMAIN s THEN EmptyObject
  ELSE IF s[id].type = "null" THEN EmptyObject
  ELSE s[id]

(***************************************************************************)
(* start(): initDb, then listen                                            *)
(***************************************************************************)
CreateClientsTable ==
  /\ phase = "initDb1"
  /\ \/ tables' = tables \cup {"clients"} /\ phase' = "initDb2"
     \/ tables' = tables /\ phase' = "exited"
  /\ UNCHANGED <<idVars, memVars, dbVars, pending, res, lastReq>>

\* A start() that goes on to listen when the second statement has failed.
CreateClientStatesTableUnchecked ==
  /\ phase = "initDb2"
  /\ \/ tables' = tables \cup {"client_states"} /\ phase' = "listen"
     \/ tables' = tables /\ phase' = "listen"
  /\ UNCHANGED <<idVars, memVars, dbVars, pending, res, lastReq>>

CreateClientStatesTable ==
  /\ phase = "initDb2"
  /\ \/ tables' = tables \cup {"client_states"} /\ phase' = "listen"
     \/ tables' = tables /\ phase' = "exited"
  /\ UNCHANGED <<idVars, memVars, dbVars, pending, res, lastReq>>

Listen ==
  /\ phase = "listen"
  /\ phase' = "listening"
  /\ UNCHANGED <<idVars, memVars, tables, dbVars, pending, res, lastReq>>

(***************************************************************************)
(* Route handlers.  Every pool.query is one atomic step.  A handler of two *)
(* statements is two steps: after the first it waits in `pending` as a     *)
(* continuation, and any other request may run before it resumes.          *)
(***************************************************************************)
Listening == phase = "listening"

\* A handler may start its first of two statements.
CanStart == Listening /\ BagCardinality(pending) < MaxInFlight

Cont(label, id, name, state) ==
  [label |-> label, id |-> id, name |-> name, state |-> state]

Await(k) == pending' = pending (+) SetToBag({k})
Resume(k) == pending' = pending (-) SetToBag({k})

\* The request a waiting handler is serving.
RequestOf(k) ==
  Request(IF k.label = "post_state" THEN "post"
          ELSE IF k.label = "put_state" THEN "putstate" ELSE "reset",
          IF k.label = "put_state" THEN k.id ELSE <<>>, k.name, k.state)

\* res.json(...) or res.status(...).json(...), with the request it answers.
Respond(request, response) ==
  /\ lastReq' = request
  /\ res' = response

Awaiting(label) == { k \in BagToSet(pending) : k.label = label }

\* GET /api/admin/reset-all, first statement
ResetDeleteStates ==
  /\ CanStart
  /\ \/ /\ client_states' = Empty
        /\ Await(Cont("reset_clients", <<>>, <<>>, EmptyObject))
        /\ UNCHANGED <<clients, res, lastReq>>
     \/ /\ Respond(Request("reset", <<>>, <<>>, EmptyObject), BackendError("reset"))
        /\ UNCHANGED <<dbVars, pending>>
  /\ UNCHANGED <<idVars, memVars, bootVars>>

\* A second statement that deletes the client rows and leaves the state
\* rows written since the first statement in place.
ResetDeleteClientsNoCascade(k) ==
  /\ k \in Awaiting("reset_clients")
  /\ Resume(k)
  /\ \/ /\ clients' = Empty
        /\ UNCHANGED client_states
        /\ Respond(RequestOf(k), Res("reset", 200, "none"))
     \/ /\ Respond(RequestOf(k), BackendError("reset"))
        /\ UNCHANGED dbVars
  /\ UNCHANGED <<idVars, memVars, bootVars>>

\* GET /api/admin/reset-all, second statement and the response
ResetDeleteClients(k) ==
  /\ k \in Awaiting("reset_clients")
  /\ Resume(k)
  /\ \/ /\ clients' = Empty
        /\ client_states' = Empty
        /\ Respond(RequestOf(k), Res("reset", 200, "none"))
     \/ /\ Respond(RequestOf(k), BackendError("reset"))
        /\ UNCHANGED dbVars
  /\ UNCHANGED <<idVars, memVars, bootVars>>

\* GET /api/clients
ListClients ==
  /\ Listening
  /\ \/ \E rows \in SelectClientsOrderByName(clients) :
          Respond(Request("list", <<>>, <<>>, EmptyObject),
                  [Res("list", 200, "none") EXCEPT !.list = rows])
     \/ Respond(Request("list", <<>>, <<>>, EmptyObject), BackendError("list"))
  /\ UNCHANGED <<idVars, memVars, bootVars, dbVars, pending>>

\* POST /api/clients with a missing or blank name
PostClientRejected(name) ==
  /\ Listening
  /\ NameRejected(name)
  /\ Respond(Request("post", <<>>, name, EmptyObject),
             Res("post", 400, "validation"))
  /\ UNCHANGED <<idVars, memVars, bootVars, dbVars, pending>>

\* POST /api/clients, first statement
PostClientUpsert(name) ==
  /\ CanStart
  /\ ~NameRejected(name)
  /\ LET id == makeClientId(name)
         cleanName == trim(name)
     IN  \/ /\ clients' = UpsertClient(clients, id, cleanName)
            /\ Await(Cont("post_state", id, name, EmptyObject))
            /\ UNCHANGED <<client_states, res, lastReq>>
         \/ /\ Respond(Request("post", <<>>, name, EmptyObject),
                       BackendError("post"))
            /\ UNCHANGED <<dbVars, pending>>
  /\ UNCHANGED <<idVars, memVars, bootVars>>

\* POST /api/clients, second statement and the response; the response is
\* the row the first statement wrote and returned: (id, cleanName).
PostClientInsertState(k) ==
  /\ k \in Awaiting("post_state")
  /\ Resume(k)
  /\ \/ /\ ForeignKeyHolds(clients, k.id)
        /\ client_states' = InsertEmptyStateIfAbsent(client_states, k.id)
        /\ Respond(RequestOf(k),
                   [Res("post", 200, "none") EXCEPT
                      !.id = k.id, !.name = trim(k.name)])
        /\ UNCHANGED clients
     \/ /\ ~ForeignKeyHolds(clients, k.id)
        /\ Respond(RequestOf(k), Res("post", 500, "constraint"))
        /\ UNCHANGED dbVars
     \/ /\ Respond(RequestOf(k), BackendError("post"))
        /\ UNCHANGED dbVars
  /\ UNCHANGED <<idVars, memVars, bootVars>>

\* PUT /api/clients/:id with a missing or blank name
RenameRejected(id, name) ==
  /\ Listening
  /\ NameRejected(name)
  /\ Respond(Request("rename", id, name, EmptyObject),
             Res("rename", 400, "validation"))
  /\ UNCHANGED <<idVars, memVars, bootVars, dbVars, pending>>

\* PUT /api/clients/:id
RenameClient(id, name) ==
  /\ Listening
  /\ ~NameRejected(name)
  /\ \/ /\ clients' = UpdateName(clients, id, trim(name))
        /\ Respond(Request("rename", id, name, EmptyObject),
                   IF id \in DOMAIN clients'
                     THEN [Res("rename", 200, "none") EXCEPT
                             !.id = id, !.name = clients'[id]]
                     ELSE Res("rename", 404, "notfound"))
     \/ /\ Respond(Request("rename", id, name, EmptyObject),
                   BackendError("rename"))
        /\ UNCHANGED clients
  /\ UNCHANGED <<idVars, memVars, bootVars, client_states, pending>>

\* DELETE /api/clients/:id
DeleteClientById(id) ==
  /\ Listening
  /\ \/ /\ clients' = DeleteClient(clients, id)
        /\ client_states' =
             IF id \in DOMAIN clients THEN Cascade(client_states, id)
                                      ELSE client_states
        /\ Respond(Request("delete", id, <<>>, EmptyObject),
                   IF id \in DOMAIN clients
                     THEN Res("delete", 200, "none")
                     ELSE Res("delete", 404, "notfound"))
     \/ /\ Respond(Request("delete", id, <<>>, EmptyObject),
                   BackendError("delete"))
        /\ UNCHANGED dbVars
  /\ UNCHANGED <<idVars, memVars, bootVars, pending>>

\* GET /api/clients/:id/state
GetState(id) ==
  /\ Listening
  /\ \/ Respond(Request("getstate", id, <<>>, EmptyObject),
                [Res("getstate", 200, "none") EXCEPT
                   !.state = SelectState(client_states, id)])
     \/ Respond(Request("getstate", id, <<>>, EmptyObject),
                BackendError("getstate"))
  /\ UNCHANGED <<idVars, memVars, bootVars, dbVars, pending>>

\* PUT /api/clients/:id/state with a body that is refused
PutStateRejected(id, body) ==
  /\ Listening
  /\ \/ /\ ~JsonParsed(body)
        /\ Respond(Request("putstate", id, <<>>, body),
                   Res("putstate", 400, "parse"))
     \/ /\ JsonParsed(body)
        /\ StateRejected(body)
        /\ Respond(Request("putstate", id, <<>>, body),
                   Res("putstate", 400, "validation"))
  /\ UNCHANGED <<idVars, memVars, bootVars, dbVars, pending>>

\* PUT /api/clients/:id/state, first statement
PutStateInsertClient(id, body) ==
  /\ CanStart
  /\ JsonParsed(body)
  /\ ~StateRejected(body)
  /\ \/ /\ clients' = InsertClientIfAbsent(clients, id)
        /\ Await(Cont("put_state", id, <<>>, body))
        /\ UNCHANGED <<client_states, res, lastReq>>
     \/ /\ Respond(Request("putstate", id, <<>>, body), BackendError("putstate"))
        /\ UNCHANGED <<dbVars, pending>>
  /\ UNCHANGED <<idVars, memVars, bootVars>>

\* A second statement whose failure is compensated by deleting the client
\* row of the id.
PutStateUpsertCompensating(k) ==
  /\ k \in Awaiting("put_state")
  /\ Resume(k)
  /\ \/ /\ ForeignKeyHolds(clients, k.id)
        /\ client_states' = UpsertState(client_states, k.id, k.state)
        /\ Respond(RequestOf(k), Res("putstate", 200, "none"))
        /\ UNCHANGED clients
     \/ /\ ~ForeignKeyHolds(clients, k.id)
        /\ Respond(RequestOf(k), Res("putstate", 500, "constraint"))
        /\ UNCHANGED dbVars
     \/ /\ Respond(RequestOf(k), BackendError("putstate"))
        /\ clients' = DeleteClient(clients, k.id)
        /\ client_states' = Cascade(client_states, k.id)
  /\ UNCHANGED <<idVars, memVars, bootVars>>

\* PUT /api/clients/:id/state, second statement and the response
PutStateUpsert(k) ==
  /\ k \in Awaiting("put_state")
  /\ Resume(k)
  /\ \/ /\ ForeignKeyHolds(clients, k.id)
        /\ client_states' = UpsertState(client_states, k.id, k.state)
        /\ Respond(RequestOf(k), Res("putstate", 200, "none"))
        /\ UNCHANGED clients
     \/ /\ ~ForeignKeyHolds(clients, k.id)
        /\ Respond(RequestOf(k), Res("putstate", 500, "constraint"))
        /\ UNCHANGED dbVars
     \/ /\ Respond(RequestOf(k), BackendError("putstate"))
        /\ UNCHANGED dbVars
  /\ UNCHANGED <<idVars, memVars, bootVars>>

Init ==
  /\ arg = <<>>
  /\ ret = <<>>
  /\ called = FALSE
  /\ phase = "initDb1"
  /\ tables = {}
  /\ clients = Empty
  /\ client_states = Empty
  /\ pending = EmptyBag
  /\ res = NoRes
  /\ CLIENTS = <<>>
  /\ protoState = JsUndefined
  /\ ctorState = JsUndefined
  /\ resMem = NoRes
  /\ lastReq = NoRequest

Next ==
  \/ CreateClientsTable
  \/ CreateClientStatesTable
  \/ Listen
  \/ ResetDeleteStates
  \/ \E k \in BagToSet(pending) : ResetDeleteClients(k)
  \/ ListClients
  \/ \E name \in NameInputs : PostClientRejected(name)
  \/ \E name \in NameInputs : PostClientUpsert(name)
  \/ \E k \in BagToSet(pending) : PostClientInsertState(k)
  \/ \E id \in RouteIds, name \in NameInputs : RenameRejected(id, name)
  \/ \E id \in RouteIds, name \in NameInputs : RenameClient(id, name)
  \/ \E id \in RouteIds : DeleteClientById(id)
  \/ \E id \in RouteIds : GetState(id)
  \/ \E id \in RouteIds, body \in Bodies : PutStateRejected(id, body)
  \/ \E id \in RouteIds, body \in Bodies : PutStateInsertClient(id, body)
  \/ \E k \in BagToSet(pending) : PutStateUpsert(k)

Spec == Init /\ [][Next]_vars

(***************************************************************************)
(* The in-memory server: const CLIENTS = {} and four synchronous handlers. *)
(* CLIENTS is an ordinary object, so CLIENTS[id] also finds what its       *)
(* prototype chain holds: CLIENTS["__proto__"] is Object.prototype and     *)
(* CLIENTS["constructor"] is the function Object.                          *)
(***************************************************************************)
ProtoKey == <<"_","_","p","r","o","t","o","_","_">>
ConstructorKey == <<"c","o","n","s","t","r","u","c","t","o","r">>

\* Function.prototype.name of the function Object
ObjectFunctionName == <<"O","b","j","e","c","t">>

MemRouteIds == {<<"a">>, <<"A">>, ProtoKey, ConstructorKey}

OwnIds(C) == { C[i].id : i \in DOMAIN C }
OwnEntry(C, id) == C[CHOOSE i \in DOMAIN C : C[i].id = id]

\* CLIENTS[id]: an own entry, else what the prototype chain has under that
\* key, else undefined.  `found` is the truthiness of the result.
Lookup(C, proto, ctor, id) ==
  IF id \in OwnIds(C)
    THEN [found |-> TRUE, id |-> id, name |-> OwnEntry(C, id).name,
          state |-> OwnEntry(C, id).state]
  ELSE IF id = ProtoKey
    THEN [found |-> TRUE, id |-> Undefined, name |-> Undefined, state |-> proto]
  ELSE IF id = ConstructorKey
    THEN [found |-> TRUE, id |-> Undefined, name |-> ObjectFunctionName,
          state |-> IF ctor # JsUndefined THEN ctor ELSE proto]
  ELSE [found |-> FALSE, id |-> Undefined, name |-> Undefined,
        state |-> JsUndefined]

\* x || {}
OrEmptyObject(x) == IF x.type \in {"undefined", "null"} THEN EmptyObject ELSE x

\* if (!CLIENTS[id]) CLIENTS[id] = { id, name: name.trim(), state: {} }
MemPostStore(C, proto, ctor, id, name) ==
  IF Lookup(C, proto, ctor, id).found
    THEN C
    ELSE Append(C, [id |-> id, name |-> name, state |-> EmptyObject])

\* Object.values(CLIENTS).map(c => ({id: c.id, name: c.name})): the own
\* entries in insertion order (no id of the model is an integer index).
MemListBody(C) == [i \in DOMAIN C |-> [id |-> C[i].id, name |-> C[i].name]]

\* GET /api/clients (in-memory)
MemListClients ==
  /\ resMem' = [Res("list", 200, "none") EXCEPT !.list = MemListBody(CLIENTS)]
  /\ UNCHANGED <<CLIENTS, protoState, ctorState>>

\* POST /api/clients (in-memory)
MemPostClient(name) ==
  IF NameRejected(name)
    THEN /\ resMem' = Res("post", 400, "validation")
         /\ UNCHANGED <<CLIENTS, protoState, ctorState>>
    ELSE LET id == makeClientId(name)
             C == MemPostStore(CLIENTS, protoState, ctorState, id, trim(name))
             found == Lookup(C, protoState, ctorState, id)
         IN  /\ CLIENTS' = C
             /\ resMem' = [Res("post", 200, "none") EXCEPT
                             !.id = found.id, !.name = found.name]
             /\ UNCHANGED <<protoState, ctorState>>

\* GET /api/clients/:id/state (in-memory)
MemGetState(id) ==
  /\ LET client == Lookup(CLIENTS, protoState, ctorState, id)
     IN  resMem' = [Res("getstate", 200, "none") EXCEPT
                      !.state = IF client.found THEN OrEmptyObject(client.state)
                                                ELSE EmptyObject]
  /\ UNCHANGED <<CLIENTS, protoState, ctorState>>

\* PUT /api/clients/:id/state (in-memory)
MemPutState(id, body) ==
  IF ~JsonParsed(body)
    THEN /\ resMem' = Res("putstate", 400, "parse")
         /\ UNCHANGED <<CLIENTS, protoState, ctorState>>
  ELSE IF StateRejected(body)
    THEN /\ resMem' = Res("putstate", 400, "validation")
         /\ UNCHANGED <<CLIENTS, protoState, ctorState>>
  ELSE LET C == IF Lookup(CLIENTS, protoState, ctorState, id).found
                  THEN CLIENTS
                  ELSE Append(CLIENTS, [id |-> id, name |-> id,
                                        state |-> EmptyObject])
       IN  \* CLIENTS[id].state = state
           /\ CLIENTS' = [i \in DOMAIN C |->
                            IF C[i].id = id THEN [C[i] EXCEPT !.state = body]
                                            ELSE C[i]]
           /\ protoState' = IF id \notin OwnIds(C) /\ id = ProtoKey
                              THEN body ELSE protoState
           /\ ctorState' = IF id \notin OwnIds(C) /\ id = ConstructorKey
                             THEN body ELSE ctorState
           /\ resMem' = Res("putstate", 200, "none")

(***************************************************************************)
(* The Postgres-backed handlers run one request at a time, each to its     *)
(* end, with no statement failing.                                         *)
(***************************************************************************)
SeqListClients ==
  /\ \E rows \in SelectClientsOrderByName(clients) :
       res' = [Res("list", 200, "none") EXCEPT !.list = rows]
  /\ UNCHANGED dbVars

SeqPostClient(name) ==
  IF NameRejected(name)
    THEN /\ res' = Res("post", 400, "validation")
         /\ UNCHANGED dbVars
    ELSE LET id == makeClientId(name)
         IN  /\ clients' = UpsertClient(clients, id, trim(name))
             /\ client_states' = InsertEmptyStateIfAbsent(client_states, id)
             /\ res' = [Res("post", 200, "none") EXCEPT
                          !.id = id, !.name = trim(name)]

SeqGetState(id) ==
  /\ res' = [Res("getstate", 200, "none") EXCEPT
               !.state = SelectState(client_states, id)]
  /\ UNCHANGED dbVars

SeqPutState(id, body) ==
  IF ~JsonParsed(body)
    THEN /\ res' = Res("putstate", 400, "parse")
         /\ UNCHANGED dbVars
  ELSE IF StateRejected(body)
    THEN /\ res' = Res("putstate", 400, "validation")
         /\ UNCHANGED dbVars
  ELSE /\ clients' = InsertClientIfAbsent(clients, id)
       /\ client_states' = UpsertState(client_states, id, body)
       /\ res' = Res("putstate", 200, "none")

(***************************************************************************)
(* Both servers, started on empty stores, are sent the same requests.      *)
(***************************************************************************)
InitEq ==
  /\ arg = <<>>
  /\ ret = <<>>
  /\ called = FALSE
  /\ phase = "listening"
  /\ tables = {"clients", "client_states"}
  /\ clients = Empty
  /\ client_states = Empty
  /\ pending = EmptyBag
  /\ res = NoRes
  /\ CLIENTS = <<>>
  /\ protoState = JsUndefined
  /\ ctorState = JsUndefined
  /\ resMem = NoRes
  /\ lastReq = NoRequest

EqListClients ==
  /\ SeqListClients
  /\ MemListClients
  /\ lastReq' = Request("list", <<>>, <<>>, EmptyObject)
  /\ UNCHANGED <<idVars, bootVars, pending>>

EqPostClient(name) ==
  /\ SeqPostClient(name)
  /\ MemPostClient(name)
  /\ lastReq' = Request("post", <<>>, name, EmptyObject)
  /\ UNCHANGED <<idVars, bootVars, pending>>

EqGetState(id) ==
  /\ SeqGetState(id)
  /\ MemGetState(id)
  /\ lastReq' = Request("getstate", id, <<>>, EmptyObject)
  /\ UNCHANGED <<idVars, bootVars, pending>>

EqPutState(id, body) ==
  /\ SeqPutState(id, body)
  /\ MemPutState(id, body)
  /\ lastReq' = Request("putstate", id, <<>>, body)
  /\ UNCHANGED <<idVars, bootVars, pending>>

NextEq ==
  \/ EqListClients
  \/ \E name \in NameInputs : EqPostClient(name)
  \/ \E id \in MemRouteIds : EqGetState(id)
  \/ \E id \in MemRouteIds, body \in Bodies : EqPutState(id, body)

SpecEq == InitEq /\ [][NextEq]_vars

(***************************************************************************)
(* The derivation on its own: every name over Alphabet up to MaxLen.       *)
(***************************************************************************)
MaxLen == 3

Alphabet == {"a", "A", "0", " ", "-", "!", "KELVIN", "E_ACUTE_UPPER", "IDOT"}

RECURSIVE StringsUpTo(_)
StringsUpTo(n) ==
  IF n = 0 THEN {<<>>}
  ELSE LET shorter == StringsUpTo(n - 1)
       IN  shorter \cup { Append(s, c) : s \in shorter, c \in Alphabet }

InitId ==
  /\ arg \in StringsUpTo(MaxLen)
  /\ ret = <<>>
  /\ called = FALSE
  /\ phase = "initDb1"
  /\ tables = {}
  /\ clients = Empty
  /\ client_states = Empty
  /\ pending = EmptyBag
  /\ res = NoRes
  /\ CLIENTS = <<>>
  /\ protoState = JsUndefined
  /\ ctorState = JsUndefined
  /\ resMem = NoRes
  /\ lastReq = NoRequest

CallMakeClientId ==
  /\ ~called
  /\ ret' = makeClientId(arg)
  /\ called' = TRUE
  /\ UNCHANGED <<arg, memVars, bootVars, dbVars, pending, res, lastReq>>

NextId == CallMakeClientId

SpecId == InitId /\ [][NextId]_vars

IsSlug(s) ==
  /\ s # <<>>
  /\ \A i \in DOMAIN s : s[i] \in SlugAlnum \cup {"-"}
  /\ s[1] # "-"
  /\ s[Len(s)] # "-"

\* C1 (as stated): the id is a non-empty string over [a-z0-9-] with no
\* leading or trailing hyphen, and it is "client" whenever the name has no
\* ASCII letter or digit.
C1_AsStated ==
  called =>
    /\ IsSlug(ret)
    /\ (\A i \in DOMAIN arg : arg[i] \notin AsciiAlnum) => ret = ClientFallback

\* C1 (amended): the id is a non-empty string over [a-z0-9-] with no leading
\* or trailing hyphen, and it is "client" whenever the lowercased name has no
\* character of [a-z0-9].
C1_Slug ==
  called =>
    /\ IsSlug(ret)
    /\ (\A i \in DOMAIN toLowerCase(arg) : toLowerCase(arg)[i] \notin SlugAlnum)
         => ret = ClientFallback

\* A name of punctuation and blanks only has been given the fallback id.
C1_Witness ==
  /\ called
  /\ arg = <<" ", "!", "!">>
  /\ ret = ClientFallback

(***************************************************************************)
(* Properties of the Postgres-backed server, under Spec.  A step belongs   *)
(* to a one-statement handler when it leaves `pending` alone and answers   *)
(* the request lastReq'; it is the first statement of a two-statement      *)
(* handler when it adds a continuation to `pending`, and the second when   *)
(* it removes one.                                                         *)
(***************************************************************************)
Answers(op) == pending' = pending /\ lastReq'.op = op

Starts(k) == pending' = pending (+) SetToBag({k})

Finishes(k) == BagIn(k, pending) /\ pending' = pending (-) SetToBag({k})

Conts == BagToSet(pending) \cup BagToSet(pending')

\* C2: the first statement of PUT state creates the row (id, name = id) when
\* the id has no client row and leaves an existing row, name included, as it
\* is; a PUT state answered 200 has written the body as the state row of a
\* client row that exists, without touching any name.
C2_PutStateCreatesClient ==
  [][ \A k \in Conts : k.label = "put_state" =>
        /\ Starts(k) =>
             /\ k.id \notin DOMAIN clients => clients' = Put(clients, k.id, k.id)
             /\ k.id \in DOMAIN clients => clients' = clients
             /\ client_states' = client_states
        /\ (Finishes(k) /\ res'.status = 200) =>
             /\ k.state.type = "object"
             /\ k.id \in DOMAIN clients'
             /\ clients' = clients
             /\ client_states' = Put(client_states, k.id, k.state)
    ]_vars

\* A PUT state was answered 200 for an id whose client row was created with
\* another name by POST and still has it, while the non-slug id "A", which
\* only a state write can create, has the row (A, A) and a state row.
C2_Witness ==
  /\ lastReq.op = "putstate"
  /\ lastReq.id = <<"a">>
  /\ res.status = 200
  /\ <<"a">> \in DOMAIN clients
  /\ clients[<<"a">>] = <<"A">>
  /\ <<"a">> \in DOMAIN client_states
  /\ client_states[<<"a">>] = Obj({"task1"})
  /\ <<"A">> \in DOMAIN clients
  /\ clients[<<"A">>] = <<"A">>
  /\ <<"A">> \in DOMAIN client_states

\* C3: a PUT state whose body is not a JSON object is answered 400 and
\* changes no row; no state row and no state about to be written is ever
\* anything but a JSON object.
C3_NonObjectRejected ==
  [][ /\ (lastReq'.op = "putstate" /\ lastReq'.body.type # "object"
            /\ <<lastReq', res'>> # <<lastReq, res>>) =>
           /\ res'.status = 400
           /\ Answers("putstate")
           /\ UNCHANGED dbVars
      /\ \A id \in DOMAIN client_states' : client_states'[id].type = "object"
      /\ \A k \in BagToSet(pending') :
           k.label = "put_state" => k.state.type = "object"
    ]_vars

\* An array body was refused while the id keeps the state written before.
C3_Witness ==
  /\ lastReq.op = "putstate"
  /\ lastReq.body = JsonArray
  /\ res.status = 400
  /\ lastReq.id \in DOMAIN client_states
  /\ client_states[lastReq.id] = Obj({"task1"})

\* C5: a DELETE answered 200 removes the client row and its state row and
\* nothing else; the id is then in no listing and its state reads {}.
C5_DeleteCascades ==
  [][ (Answers("delete") /\ res'.status = 200) =>
        LET id == lastReq'.id
        IN  /\ id \in DOMAIN clients
            /\ clients' = Remove(clients, id)
            /\ client_states' = Remove(client_states, id)
            /\ \A rows \in SelectClientsOrderByName(clients') :
                 \A i \in DOMAIN rows : rows[i].id # id
            /\ SelectState(client_states', id) = EmptyObject
    ]_vars

\* A client that had a state was deleted, and another client and its state
\* are still there.
C5_Witness ==
  /\ lastReq.op = "delete"
  /\ lastReq.id = <<"a">>
  /\ res.status = 200
  /\ <<"a">> \notin DOMAIN clients
  /\ <<"a">> \notin DOMAIN client_states
  /\ <<"A">> \in DOMAIN clients
  /\ <<"A">> \in DOMAIN client_states
  /\ client_states[<<"A">>] = Obj({"task1"})

\* C6: a rename answered 200 sets the name of that one client row to the
\* trimmed name and changes no other row and no state; the answer is
\* {id, trimmed name}; and no step replaces one id by another (the set of
\* ids only grows or only shrinks in a step).
C6_RenameOnlyName ==
  [][ /\ (Answers("rename") /\ res'.status = 200) =>
           LET id == lastReq'.id
               cleanName == trim(lastReq'.name)
           IN  /\ id \in DOMAIN clients
               /\ clients' = Put(clients, id, cleanName)
               /\ client_states' = client_states
               /\ res'.id = id
               /\ res'.name = cleanName
      /\ \/ DOMAIN clients \subseteq DOMAIN clients'
         \/ DOMAIN clients' \subseteq DOMAIN clients
    ]_vars

\* A client created with the name "A" was renamed with " a": its name is
\* "a", its state is what was written, and another client is there.
C6_Witness ==
  /\ lastReq.op = "rename"
  /\ lastReq.id = <<"A">>
  /\ lastReq.name = <<" ", "a">>
  /\ res.status = 200
  /\ <<"A">> \in DOMAIN clients
  /\ clients[<<"A">>] = <<"a">>
  /\ <<"A">> \in DOMAIN client_states
  /\ client_states[<<"A">>] = Obj({"task1"})
  /\ <<"a">> \in DOMAIN clients
  /\ clients[<<"a">>] = <<"A">>

\* C7: a rename or a delete of an id with no client row changes no row, and
\* is answered 404 unless the name is blank (400) or the statement failed
\* in the backend (500).
C7_UnknownIdNotFound ==
  [][ ((Answers("rename") \/ Answers("delete"))
         /\ lastReq'.id \notin DOMAIN clients) =>
        /\ UNCHANGED dbVars
        /\ res'.status # 200
        /\ ((lastReq'.op = "delete" \/ ~NameRejected(lastReq'.name))
              /\ res'.cause # "backend") => res'.status = 404
    ]_vars

\* A rename of an unknown id was answered 404 while another client exists.
C7_Witness ==
  /\ lastReq.op = "rename"
  /\ lastReq.id = <<"A">>
  /\ res.status = 404
  /\ DOMAIN clients = {<<"a">>}
  /\ DOMAIN client_states = {<<"a">>}

\* C8: no statement of POST /api/clients changes a state row that exists,
\* whatever ran between its two statements; a POST answered 200 leaves a
\* state row for its id, which is {} when there was none.
C8_PostKeepsState ==
  [][ \A k \in Conts : k.label = "post_state" =>
        /\ Starts(k) => client_states' = client_states
        /\ Finishes(k) =>
             /\ k.id \in DOMAIN client_states => client_states' = client_states
             /\ res'.status = 200 =>
                  /\ k.id \in DOMAIN client_states'
                  /\ k.id \notin DOMAIN client_states =>
                       client_states' = Put(client_states, k.id, EmptyObject)
    ]_vars

\* A POST was answered 200 for an id whose state, written earlier, is still
\* there.
C8_Witness ==
  /\ lastReq.op = "post"
  /\ res.status = 200
  /\ res.id = <<"a">>
  /\ <<"a">> \in DOMAIN client_states
  /\ client_states[<<"a">>] = Obj({"task1"})

(***************************************************************************)
(* Properties of both servers run side by side, under SpecEq.              *)
(***************************************************************************)
\* A state was stored under this id in the in-memory server.
MemHasState(id) ==
  \/ id \in OwnIds(CLIENTS)
  \/ id = ProtoKey /\ protoState # JsUndefined
  \/ id = ConstructorKey /\ ctorState # JsUndefined

\* C4: GET state is answered 200 with a JSON object by both servers, {} when
\* nothing was stored under the id, and the read changes nothing.
C4_GetStateIsObject ==
  [][ lastReq'.op = "getstate" =>
        LET id == lastReq'.id
        IN  /\ res'.status = 200
            /\ res'.state.type = "object"
            /\ id \notin DOMAIN client_states => res'.state = EmptyObject
            /\ UNCHANGED dbVars
            /\ resMem'.status = 200
            /\ resMem'.state.type = "object"
            /\ ~MemHasState(id) => resMem'.state = EmptyObject
            /\ UNCHANGED <<CLIENTS, protoState, ctorState>>
    ]_vars

Entries(list, id) == { i \in DOMAIN list : list[i].id = id }

\* C9: after a POST answered 200, both servers list exactly one client with
\* the derived id, its name is the trimmed name of that POST, and the answer
\* is that {id, name}.
C9_PostLastNameWins ==
  (lastReq.op = "post" /\ res.status = 200) =>
    LET id == makeClientId(lastReq.name)
        entry == [id |-> id, name |-> trim(lastReq.name)]
    IN  /\ \A rows \in SelectClientsOrderByName(clients) :
             /\ Cardinality(Entries(rows, id)) = 1
             /\ \A i \in Entries(rows, id) : rows[i] = entry
        /\ res.id = entry.id /\ res.name = entry.name
        /\ resMem.status = 200
        /\ Cardinality(Entries(MemListBody(CLIENTS), id)) = 1
        /\ \A i \in Entries(MemListBody(CLIENTS), id) :
             MemListBody(CLIENTS)[i] = entry
        /\ resMem.id = entry.id /\ resMem.name = entry.name

Body(r) == [id |-> r.id, name |-> r.name, state |-> r.state, list |-> r.list]

\* C10: started on empty stores and sent the same requests, the two servers
\* answer every request with the same status and the same body.
C10_SameAnswers ==
  /\ resMem.status = res.status
  /\ Body(resMem) = Body(res)

\* The list is in ascending order of name.
SortedByName(list) ==
  \A i, j \in DOMAIN list : i < j => NameLessEq(list[i].name, list[j].name)

\* The list has every row of the table c once, as {id, name}, and no other.
ListsEveryRow(list, c) ==
  /\ Len(list) = Cardinality(DOMAIN c)
  /\ { list[i].id : i \in DOMAIN list } = DOMAIN c
  /\ \A i \in DOMAIN list : list[i] = [id |-> list[i].id, name |-> c[list[i].id]]

\* The clients the in-memory server holds, as a table id -> name.
MemClients == [id \in OwnIds(CLIENTS) |-> OwnEntry(CLIENTS, id).name]

\* C11: GET /api/clients is answered by both servers with every existing
\* client exactly once as {id, name}, in ascending order of name.
C11_ListSortedComplete ==
  lastReq.op = "list" =>
    /\ res.status = 200
    /\ ListsEveryRow(res.list, clients)
    /\ SortedByName(res.list)
    /\ resMem.status = 200
    /\ ListsEveryRow(resMem.list, MemClients)
    /\ SortedByName(resMem.list)

(***************************************************************************)
(* Further properties of the Postgres-backed server, under Spec.           *)
(***************************************************************************)
\* C12: the id of every client row is a derived slug: non-empty, over
\* [a-z0-9-], with no leading or trailing hyphen.
C12_IdsAreSlugs == \A id \in DOMAIN clients : IsSlug(id)

\* The name is missing, empty or made of blanks only.
Blank(name) == name = Undefined \/ \A i \in DOMAIN name : name[i] = " "

\* C13: a POST /api/clients or a rename whose name is missing, empty or
\* blank is answered 400 by a step that changes no client row and no state
\* row, and no POST with such a name is ever between its two statements.
C13_BlankNameRejected ==
  [][ /\ ((Answers("post") \/ Answers("rename")) /\ Blank(lastReq'.name)) =>
           /\ res'.status = 400
           /\ UNCHANGED dbVars
      /\ \A k \in BagToSet(pending') :
           k.label = "post_state" => ~Blank(k.name)
    ]_vars

\* A rename with a blank name was refused, and the client it names keeps the
\* name and the state it had.
C13_Witness ==
  /\ lastReq.op = "rename"
  /\ lastReq.id = <<"a">>
  /\ lastReq.name = <<" ">>
  /\ res.status = 400
  /\ <<"a">> \in DOMAIN clients
  /\ clients[<<"a">>] = <<"A">>
  /\ <<"a">> \in DOMAIN client_states
  /\ client_states[<<"a">>] = Obj({"task1"})

Schema == {"clients", "client_states"}

\* C14: the process comes to listen only with both tables created; once it
\* has exited it stays exited; and a step that answers a request, starts or
\* resumes a handler or changes a row is taken by a listening process whose
\* schema is initialized.
C14_ListenAfterInitDb ==
  [][ /\ phase' = "listening" => tables' = Schema
      /\ phase = "exited" => phase' = "exited"
      /\ (phase = "initDb1" /\ tables' = tables) => phase' = "exited"
      /\ (phase = "initDb2" /\ tables' = tables) => phase' = "exited"
      /\ <<dbVars, pending, res, lastReq>>' # <<dbVars, pending, res, lastReq>>
           => phase = "listening" /\ tables = Schema
    ]_vars

\* The process listens on an initialized schema and has answered a request.
C14_Witness ==
  /\ phase = "listening"
  /\ tables = Schema
  /\ lastReq.op = "getstate"
  /\ res.status = 200
  /\ clients # Empty

\* C15: the step in which reset-all is answered 200 leaves no client row and
\* no state row, so that the list is empty and every state reads {}; and
\* while that answer is the last one given and no handler is between its
\* statements, both tables are still empty.
C15_ResetWipesAll ==
  [][ /\ \A k \in Conts :
           (k.label = "reset_clients" /\ Finishes(k) /\ res'.status = 200) =>
             /\ clients' = Empty
             /\ client_states' = Empty
             /\ SelectClientsOrderByName(clients') = {<<>>}
             /\ \A id \in RouteIds :
                  SelectState(client_states', id) = EmptyObject
      /\ (lastReq'.op = "reset" /\ res'.status = 200 /\ pending' = EmptyBag) =>
           clients' = Empty /\ client_states' = Empty
    ]_vars

\* reset-all was answered 200 with no handler between its statements, and
\* the tables are empty.
C15_Witness ==
  /\ lastReq.op = "reset"
  /\ res.status = 200
  /\ pending = EmptyBag
  /\ clients = Empty
  /\ client_states = Empty

(***************************************************************************)
(* PUT state requests racing on one id: the database starts empty, every   *)
(* request is for the same id, up to MaxInFlight of them are between their *)
(* two statements at once, and their statements interleave in every order. *)
(***************************************************************************)
InitRace ==
  /\ arg = <<>>
  /\ ret = <<>>
  /\ called = FALSE
  /\ phase = "listening"
  /\ tables = {"clients", "client_states"}
  /\ clients = Empty
  /\ client_states = Empty
  /\ pending = EmptyBag
  /\ res = NoRes
  /\ CLIENTS = <<>>
  /\ protoState = JsUndefined
  /\ ctorState = JsUndefined
  /\ resMem = NoRes
  /\ lastReq = NoRequest

\* A PUT state on the one id this database has seen, if it has seen any.
RacePutStateInsertClient(id, body) ==
  /\ DOMAIN clients \subseteq {id}
  /\ \A k \in BagToSet(pending) : k.id = id
  /\ PutStateInsertClient(id, body)

RacePutStateUpsert(k) == PutStateUpsert(k)

NextRace ==
  \/ \E id \in RouteIds, body \in ObjectBodies : RacePutStateInsertClient(id, body)
  \/ \E k \in BagToSet(pending) : RacePutStateUpsert(k)

SpecRace == InitRace /\ [][NextRace]_vars

\* C16: of the PUT state requests racing on an unknown id, every one whose
\* statements the backend runs is answered 200; at each answer there is the
\* one client row (id, id) and the one state row of that id, holding the
\* body of the request answered, which is the upsert committed last.
C16_ConcurrentPutState ==
  [][ \A k \in Conts :
        (k.label = "put_state" /\ Finishes(k) /\ res'.cause # "backend") =>
          /\ res'.status = 200
          /\ clients' = Put(Empty, k.id, k.id)
          /\ client_states' = Put(Empty, k.id, k.state)
    ]_vars

\* Two requests raced with different bodies: one has been answered 200 and
\* its body is the state, while the other, which started before that
\* answer, has yet to run its upsert.
C16_Witness ==
  /\ lastReq.op = "putstate"
  /\ lastReq.body = EmptyObject
  /\ res.status = 200
  /\ clients = Put(Empty, <<"A">>, <<"A">>)
  /\ client_states = Put(Empty, <<"A">>, EmptyObject)
  /\ pending = SetToBag({Cont("put_state", <<"A">>, <<>>, Obj({"task1"}))})

\* C18: when the second statement of a PUT state or of a POST /api/clients
\* fails, the request is answered 500 and no row is touched: the client row
\* the first statement wrote stays, and an id that had no state row still
\* has none, so that its state reads {}.
C18_NoCompensation ==
  [][ \A k \in Conts :
        (k.label \in {"put_state", "post_state"} /\ Finishes(k)
           /\ res'.status # 200) =>
          /\ res'.status = 500
          /\ UNCHANGED dbVars
          /\ k.id \in DOMAIN clients => k.id \in DOMAIN clients'
          /\ k.id \notin DOMAIN client_states =>
               SelectState(client_states', k.id) = EmptyObject
    ]_vars

\* A PUT state of {task1} on the id "A" was answered 500 by a backend
\* failure; the row (A, A) its first statement created is there, with no
\* state row.
C18_Witness ==
  /\ lastReq.op = "putstate"
  /\ lastReq.id = <<"A">>
  /\ lastReq.body = Obj({"task1"})
  /\ res.status = 500
  /\ res.cause = "backend"
  /\ clients = Put(Empty, <<"A">>, <<"A">>)
  /\ client_states = Empty
  /\ pending = EmptyBag

\* C19: in every reachable state, under every interleaving of the
\* statements of the handlers, every state row belongs to a client row that
\* exists; client_id being the key of the state table, a client has at most
\* one state row.
C19_ReferentialIntegrity == DOMAIN client_states \subseteq DOMAIN clients

\* A PUT state whose client row was deleted between its two statements was
\* refused by the foreign key, while another client has its state row.
C19_Witness ==
  /\ lastReq.op = "putstate"
  /\ res.status = 500
  /\ res.cause = "constraint"
  /\ lastReq.id \notin DOMAIN clients
  /\ lastReq.id \notin DOMAIN client_states
  /\ client_states # Empty

\* C20: a PUT state or a POST /api/clients with a valid body, none of whose
\* statements the backend fails for a reason of its own, is answered 200,
\* whatever ran between its two statements.
C20_ValidRequestSucceeds ==
  [][ \A k \in Conts :
        (k.label \in {"put_state", "post_state"} /\ Finishes(k)
           /\ res'.cause # "backend") => res'.status = 200
    ]_vars

(***************************************************************************)
(* Further properties of both servers run side by side, under SpecEq.      *)
(***************************************************************************)
\* C17: a PUT state answered 200 leaves exactly its body as the state of the
\* id, and a GET state of that id sent right after it is answered with
\* exactly that body, by both servers, whatever was stored before.
C17_PutStateOverwrites ==
  [][ /\ (lastReq'.op = "putstate" /\ res'.status = 200) =>
           /\ lastReq'.id \in DOMAIN client_states'
           /\ client_states'[lastReq'.id] = lastReq'.body
      /\ (lastReq.op = "putstate" /\ res.status = 200
            /\ lastReq'.op = "getstate" /\ lastReq'.id = lastReq.id) =>
           /\ res'.status = 200
           /\ res'.state = lastReq.body
           /\ resMem'.status = 200
           /\ resMem'.state = lastReq.body
    ]_vars

\* A GET state was answered {} by both servers for an id that has a client
\* row and whose stored state is {}, while another id has the state {task1}.
C17_Witness ==
  /\ lastReq.op = "getstate"
  /\ lastReq.id = <<"a">>
  /\ res.state = EmptyObject
  /\ resMem.state = EmptyObject
  /\ <<"a">> \in DOMAIN client_states
  /\ client_states[<<"a">>] = EmptyObject
  /\ <<"A">> \in DOMAIN client_states
  /\ client_states[<<"A">>] = Obj({"task1"})
====
